---- MODULE Spec2Model ----
(***************************************************************************)
(* Model of visualize.py: main() checks the sets file, load_data() reads   *)
(* and joins the two CSV tables and derives the volume column, and the six *)
(* generate_* functions each compute one aggregate and write one HTML file. *)
(*                                                                         *)
(* Exercise names and session ids are integers; the integer order stands   *)
(* for the key order pandas' groupby(sort=True) puts group keys in.  Dates *)
(* are day numbers (day 0 is a Monday) and NaT is the null date.           *)
(***************************************************************************)
EXTENDS Integers, Sequences, FiniteSets, TLC

MaxRows == 2
MaxExercises == 17
MaxSessions == 2

NaT == -1
top_volume_n == 10
top_frequency_n == 15
top_progression_n == 5
summary_n == 10

Charts == {"top_exercises_by_volume", "workout_frequency", "exercise_progression",
           "sets_distribution", "exercise_frequency", "summary_dashboard"}

-----------------------------------------------------------------------------
(* Generic sequence helpers *)

RECURSIVE SumSeq(_)
SumSeq(s) == IF s = <<>> THEN 0 ELSE Head(s) + SumSeq(Tail(s))

RECURSIVE SetToSortedSeq(_)
SetToSortedSeq(S) ==
    IF S = {} THEN <<>>
    ELSE LET m == CHOOSE x \in S : \A y \in S : x <= y
         IN <<m>> \o SetToSortedSeq(S \ {m})

Range(s) == {s[i] : i \in 1..Len(s)}

SeqsUpTo(S, n) == UNION {[1..k -> S] : k \in 0..n}

-----------------------------------------------------------------------------
(* CSV cells and numeric coercion (load_data, lines 54-59) *)

Num(n) == [kind |-> "num", val |-> n]
Text == [kind |-> "text", val |-> 0]
Missing == [kind |-> "missing", val |-> 0]

\* pd.to_numeric(col, errors='coerce'): a number stays what it is, anything
\* else becomes NaN.
to_numeric(cell) ==
    IF cell.kind = "num" THEN [nan |-> FALSE, val |-> cell.val]
    ELSE [nan |-> TRUE, val |-> 0]

fillna(x, d) == IF x.nan THEN d ELSE x.val

convert_numeric(cell) == fillna(to_numeric(cell), 0)

volume_add(reps, weight) == reps + weight

volume_of(reps, weight) == reps * weight

-----------------------------------------------------------------------------
(* Data frames: a set of column names and a sequence of rows; every row is *)
(* a function from the frame's columns to cell values.                     *)

DataFrame(cols, rows) == [is_none |-> FALSE, columns |-> cols, rows |-> rows]

None_df == [is_none |-> TRUE, columns |-> {}, rows |-> <<>>]

\* df[c] = value, for one row: adds the column or overwrites it.
with_column(r, c, v) == [k \in (DOMAIN r) \cup {c} |-> IF k = c THEN v ELSE r[k]]

column(df, c) == [i \in 1..Len(df.rows) |-> df.rows[i][c]]

-----------------------------------------------------------------------------
(* The left merge of load_data, lines 44-48 *)

MatchesOf(sid, wrows) == SelectSeq(wrows, LAMBDA w : w.session_id = sid)

RECURSIVE merge_inner(_, _)
merge_inner(srows, wrows) ==
    IF srows = <<>> THEN <<>>
    ELSE LET r == Head(srows)
             ms == MatchesOf(r.session_id, wrows)
         IN [i \in 1..Len(ms) |-> with_column(r, "session_date", ms[i].session_date)]
            \o merge_inner(Tail(srows), wrows)

\* sets_df.merge(workouts_df[['session_id','session_date']], on='session_id',
\* how='left'): every left row in left order, once per matching right row,
\* or once with a null date when nothing matches.
RECURSIVE merge_left(_, _)
merge_left(srows, wrows) ==
    IF srows = <<>> THEN <<>>
    ELSE LET r == Head(srows)
             ms == MatchesOf(r.session_id, wrows)
             joined == IF ms = <<>> THEN << with_column(r, "session_date", NaT) >>
                       ELSE [i \in 1..Len(ms) |->
                               with_column(r, "session_date", ms[i].session_date)]
         IN joined \o merge_left(Tail(srows), wrows)

\* Lines 55-59 applied to one row.
derive_row(r) ==
    LET reps == convert_numeric(r.reps)
        weight == convert_numeric(r.weight)
    IN with_column(with_column(with_column(r, "reps", reps), "weight", weight),
                   "volume", volume_of(reps, weight))

-----------------------------------------------------------------------------
(* Series: a sequence of [key, num, den] entries, the value being num/den  *)
(* (den = 1 except for means).                                             *)

Entry(k, n, d) == [key |-> k, num |-> n, den |-> d]

Greater(a, b) == a.num * b.den > b.num * a.den

Keys(rows, c) == {rows[i][c] : i \in 1..Len(rows)}

RowsOf(rows, c, k) == SelectSeq(rows, LAMBDA r : r[c] = k)

ColumnSum(rows, c) == SumSeq([i \in 1..Len(rows) |-> rows[i][c]])

\* df.groupby(by)[c].sum(): one entry per distinct key, in key order.
groupby_sum(rows, by, c) ==
    LET ks == SetToSortedSeq(Keys(rows, by))
    IN [i \in 1..Len(ks) |-> Entry(ks[i], ColumnSum(RowsOf(rows, by, ks[i]), c), 1)]

\* df.groupby(by)[c].mean()
groupby_mean(rows, by, c) ==
    LET ks == SetToSortedSeq(Keys(rows, by))
    IN [i \in 1..Len(ks) |->
          Entry(ks[i], ColumnSum(RowsOf(rows, by, ks[i]), c), Len(RowsOf(rows, by, ks[i])))]

\* df.groupby(by).size(); groups whose key is null are dropped.
groupby_size(rows, by) ==
    LET ks == SetToSortedSeq(Keys(rows, by) \ {NaT})
    IN [i \in 1..Len(ks) |-> Entry(ks[i], Len(RowsOf(rows, by, ks[i])), 1)]

\* df.groupby(by)[c].nunique()
groupby_nunique(rows, by, c) ==
    LET ks == SetToSortedSeq(Keys(rows, by))
    IN [i \in 1..Len(ks) |-> Entry(ks[i], Cardinality(Keys(RowsOf(rows, by, ks[i]), c)), 1)]

head_more(s, n) == SubSeq(s, 1, IF n + 1 < Len(s) THEN n + 1 ELSE Len(s))

head(s, n) == SubSeq(s, 1, IF n < Len(s) THEN n ELSE Len(s))

RECURSIVE DescendingArrangements(_)
DescendingArrangements(S) ==
    IF S = {} THEN {<<>>}
    ELSE LET top == {x \in S : \A y \in S : ~Greater(y, x)}
         IN UNION {{<<x>> \o t : t \in DescendingArrangements(S \ {x})} : x \in top}

\* Series.sort_values(ascending=False) with the default kind='quicksort',
\* which is not a stable sort: entries with equal values may come out in
\* any order.  The result is the set of orders the call can return.
sort_values_descending(ser) == DescendingArrangements(Range(ser))

\* The mergesort of nlargest's fast path: descending, equal values in the
\* order of the series.
RECURSIVE stable_descending(_)
stable_descending(ser) ==
    IF ser = <<>> THEN <<>>
    ELSE LET i == CHOOSE i \in 1..Len(ser) :
                     /\ \A j \in 1..Len(ser) : ~Greater(ser[j], ser[i])
                     /\ \A j \in 1..(i - 1) : Greater(ser[i], ser[j])
         IN <<ser[i]>> \o stable_descending(SubSeq(ser, 1, i - 1) \o SubSeq(ser, i + 1, Len(ser)))

\* Series.nlargest(n), keep='first': the slow path sorts the whole series when
\* n >= len, the fast path selects with a stable sort.
nlargest(ser, n) ==
    IF n >= Len(ser) THEN {head(r, n) : r \in sort_values_descending(ser)}
    ELSE {head(stable_descending(ser), n)}

-----------------------------------------------------------------------------
(* The aggregates of the six generate_* functions *)

\* workouts_df['session_date'].dt.to_period('W').astype(str): the Monday to
\* Sunday week of the date; a null date becomes the string 'NaT', which sorts
\* after every week label.
NaTWeek == 1000000
week_of(d) == IF d = NaT THEN NaTWeek ELSE d \div 7

\* Line 100: the frame with the week column assigned.
assign_week(df) ==
    [df EXCEPT !.columns = @ \cup {"week"},
               !.rows = [i \in 1..Len(@) |-> with_column(@[i], "week", week_of(@[i].session_date))]]

\* Line 101: groupby('week').size(); 'NaT' is a string here, so it is a group.
weekly_counts_of(df) ==
    LET ks == SetToSortedSeq(Keys(df.rows, "week"))
    IN [i \in 1..Len(ks) |-> Entry(ks[i], Len(RowsOf(df.rows, "week", ks[i])), 1)]

\* Lines 135-138: the rows of the chosen exercises, summed per (date, exercise);
\* rows with a null date are dropped by the groupby.
progression_of(rows, names) ==
    LET top_rows == SelectSeq(rows, LAMBDA r : r.exercise_name \in names)
        dates == SetToSortedSeq(Keys(top_rows, "session_date") \ {NaT})
        per_date(d) ==
            LET day_rows == RowsOf(top_rows, "session_date", d)
                sums == groupby_sum(day_rows, "exercise_name", "volume")
            IN [i \in 1..Len(sums) |->
                  [session_date |-> d, exercise_name |-> sums[i].key, volume |-> sums[i].num]]
        flat[i \in 0..Len(dates)] == IF i = 0 THEN <<>> ELSE flat[i - 1] \o per_date(dates[i])
    IN flat[Len(dates)]

\* Python's a / b.
divide(a, b) == IF b = 0 THEN [raises |-> TRUE, num |-> 0, den |-> 1]
                ELSE [raises |-> FALSE, num |-> a, den |-> b]

avg_unguarded(total_sets, total_workouts) == divide(total_sets, total_workouts)

\* Line 223.
avg_sets_per_workout(total_sets, total_workouts) ==
    IF total_workouts > 0 THEN divide(total_sets, total_workouts)
    ELSE [raises |-> FALSE, num |-> 0, den |-> 1]

\* Line 253: sets_df[sets_df['weight'] > 0]['weight']
positive_weights(rows) ==
    LET kept == SelectSeq(rows, LAMBDA r : r.weight > 0)
    IN [i \in 1..Len(kept) |-> kept[i].weight]

EmptyDashboard ==
    [total_workouts |-> 0, total_sets |-> 0, total_exercises |-> 0, total_volume |-> 0,
     avg_sets_per_workout |-> [raises |-> FALSE, num |-> 0, den |-> 1],
     panels |-> {}, volume_by_exercise |-> <<>>, avg_reps |-> <<>>,
     weights |-> <<>>, daily_sets |-> <<>>]

NoCharts ==
    [top_exercises_by_volume |-> <<>>, workout_frequency |-> <<>>,
     exercise_progression |-> [top_exercises |-> {}, progression |-> <<>>],
     sets_distribution |-> <<>>,
     exercise_frequency |-> <<>>, summary_dashboard |-> EmptyDashboard]

-----------------------------------------------------------------------------
(* State *)

VARIABLES
    sets_file,      \* "missing", "unparsable" or "ok": the file main() is given
    sets_csv,       \* the rows of the sets file
    workouts_file,  \* "absent" or "ok": the companion file of line 34
    workouts_csv,   \* the rows of the companion file
    pc,             \* the statement of main() that runs next, or "exited"
    exit_status,    \* Running until the process ends
    exception,      \* the exception that ended the run, or "none"
    message,        \* "none", "usage" (lines 289-290) or "traceback"
    output_dir,     \* TRUE once line 295 has created the directory
    sets_df,        \* main()'s sets_df
    workouts_df,    \* main()'s workouts_df
    written,        \* the chart files written by fig.write_html
    skipped,        \* the date-dependent artifacts left out for lack of dates
    charts          \* what each written file holds

inputs == <<sets_file, sets_csv, workouts_file, workouts_csv>>
frames == <<sets_df, workouts_df>>
outputs == <<written, skipped, charts>>
vars == <<sets_file, sets_csv, workouts_file, workouts_csv, pc, exit_status,
          exception, message, output_dir, sets_df, workouts_df, written, skipped, charts>>

Running == -1

-----------------------------------------------------------------------------
(* Input files *)

SetRow(s, e, r, w) == [session_id |-> s, exercise_name |-> e, reps |-> r, weight |-> w]
SessionRow(s, d) == [session_id |-> s, session_date |-> d]

\* The reps and weight cells a row of the small tables can hold: plain
\* numbers (two pairs with the same product), a negative number, text, and
\* an empty cell.
CellPairs == {<<Num(5), Num(10)>>, <<Num(2), Num(25)>>, <<Num(0 - 5), Num(10)>>,
              <<Text, Num(10)>>, <<Num(2), Missing>>}

RowPool == {SetRow(k[1], k[2], c[1], c[2]) :
              k \in {<<1, 2>>, <<1, 1>>, <<2, 1>>}, c \in CellPairs}

SmallTables == SeqsUpTo(RowPool, MaxRows)

SessionPool == {SessionRow(s, d) : s \in {1, 2}, d \in {Num(0), Num(8), Missing}}
               \cup {SessionRow(1, Text)}

SessionTables == SeqsUpTo(SessionPool, MaxSessions)

\* The table of the worked example: Bench is exercise 1, Squat exercise 2.
ExampleTable == << SetRow(1, 1, Num(10), Num(100)), SetRow(1, 1, Num(8), Num(100)),
                   SetRow(2, 2, Num(5), Num(150)) >>

\* A table with m exercises, listed from the last name to the first, so that
\* row order and name order differ.  Exercise j is logged once in each of the
\* sessions 1 .. (j+1) \div 2 with j reps of weight 10; with the negative
\* flag, exercise 1 has a negative reps cell.
ExerciseRows(j, negative) ==
    [s \in 1..((j + 1) \div 2) |->
        SetRow(s, j, IF negative /\ j = 1 THEN Num(0 - 50) ELSE Num(j), Num(10))]

RECURSIVE LargeTable(_, _)
LargeTable(m, negative) ==
    IF m = 0 THEN <<>> ELSE ExerciseRows(m, negative) \o LargeTable(m - 1, negative)

LargeSizes == {MaxExercises - 6, MaxExercises - 1, MaxExercises}

SampleSessions == << SessionRow(1, Num(0)), SessionRow(2, Num(8)) >>

SampleTables == {ExampleTable,
                 << SetRow(2, 2, Num(5), Num(10)), SetRow(3, 1, Num(5), Num(10)) >>}

Init ==
    /\ \/ /\ sets_file \in {"missing", "unparsable"}
          /\ sets_csv = <<>>
          /\ workouts_file \in {"absent", "ok"}
          /\ workouts_csv = IF workouts_file = "ok" THEN SampleSessions ELSE <<>>
       \/ /\ sets_file = "ok"
          /\ \/ sets_csv \in SmallTables
             \/ sets_csv = ExampleTable
             \/ \E m \in LargeSizes, negative \in BOOLEAN : sets_csv = LargeTable(m, negative)
          /\ workouts_file \in {"absent", "ok"}
          /\ workouts_csv = IF workouts_file = "ok" THEN SampleSessions ELSE <<>>
       \/ /\ sets_file = "ok"
          /\ sets_csv \in SampleTables
          /\ workouts_file = "ok"
          /\ workouts_csv \in SessionTables
    /\ pc = "main"
    /\ exit_status = Running
    /\ exception = "none"
    /\ message = "none"
    /\ output_dir = FALSE
    /\ sets_df = None_df
    /\ workouts_df = None_df
    /\ written = {}
    /\ skipped = {}
    /\ charts = NoCharts

-----------------------------------------------------------------------------
(* load_data, lines 26-61 *)

\* pd.read_csv(path): raises unless the file is there and parses.
read_csv(file, rows, cols) ==
    IF file = "ok" THEN [raises |-> FALSE, exception |-> "none", df |-> DataFrame(cols, rows)]
    ELSE [raises |-> TRUE,
          exception |-> IF file = "unparsable" THEN "ParserError" ELSE "FileNotFoundError",
          df |-> None_df]

\* pd.to_datetime on one cell: a date parses, an empty cell is NaT, text raises.
to_datetime(cell) ==
    IF cell.kind = "num" THEN [raises |-> FALSE, val |-> cell.val]
    ELSE IF cell.kind = "missing" THEN [raises |-> FALSE, val |-> NaT]
    ELSE [raises |-> TRUE, val |-> NaT]

Loaded(s, w) == [raises |-> FALSE, exception |-> "none", sets_df |-> s, workouts_df |-> w]
LoadRaises(e) == [raises |-> TRUE, exception |-> e, sets_df |-> None_df, workouts_df |-> None_df]

\* Lines 54-61.
convert_and_return(sets, workouts) ==
    Loaded([sets EXCEPT !.columns = @ \cup {"volume"},
                        !.rows = [i \in 1..Len(@) |-> derive_row(@[i])]],
           workouts)

load_data_result(sfile, scsv, wfile, wcsv) ==
    LET sets == read_csv(sfile, scsv, {"session_id", "exercise_name", "reps", "weight"})
    IN IF sets.raises THEN LoadRaises(sets.exception)
       ELSE IF wfile = "absent" THEN convert_and_return(sets.df, None_df)
       ELSE LET workouts == read_csv(wfile, wcsv, {"session_id", "session_date"})
                parsed == [i \in 1..Len(wcsv) |-> to_datetime(wcsv[i].session_date)]
            IN IF workouts.raises THEN LoadRaises(workouts.exception)
               ELSE IF \E i \in 1..Len(wcsv) : parsed[i].raises THEN LoadRaises("ValueError")
               ELSE LET wdf == [workouts.df EXCEPT !.rows =
                                   [i \in 1..Len(@) |->
                                      with_column(@[i], "session_date", parsed[i].val)]]
                        merged == [sets.df EXCEPT !.columns = @ \cup {"session_date"},
                                                  !.rows = merge_left(@, wdf.rows)]
                    IN convert_and_return(merged, wdf)

-----------------------------------------------------------------------------
(* main, lines 280-316 *)

Raise(e) ==
    /\ pc' = "exited"
    /\ exit_status' = 1
    /\ exception' = e
    /\ message' = "traceback"

\* fig.write_html(output_path) returned.
Saved(chart, content, next) ==
    /\ written' = written \cup {chart}
    /\ charts' = [charts EXCEPT ![chart] = content]
    /\ pc' = next
    /\ exit_status' = IF next = "exited" THEN 0 ELSE exit_status
    /\ UNCHANGED <<exception, message>>

\* fig.write_html(output_path) raised: the file cannot be written.
WriteFails ==
    /\ Raise("OSError")
    /\ UNCHANGED <<written, charts>>

skip_raises(what, next) ==
    /\ Raise("ValueError")
    /\ UNCHANGED <<skipped, written, charts>>

\* print("   Skipped: No date information available"); return
Skip(what, next) ==
    /\ skipped' = skipped \cup {what}
    /\ pc' = next
    /\ UNCHANGED <<exit_status, exception, message, written, charts>>

main_unchecked ==
    /\ pc = "main"
    /\ output_dir' = TRUE
    /\ pc' = "load_data"
    /\ UNCHANGED <<inputs, frames, outputs, exit_status, exception, message>>

\* Lines 281-295.
main ==
    /\ pc = "main"
    /\ IF sets_file = "missing"
       THEN /\ pc' = "exited"
            /\ exit_status' = 1
            /\ exception' = "SystemExit"
            /\ message' = "usage"
            /\ UNCHANGED output_dir
       ELSE /\ output_dir' = TRUE
            /\ pc' = "load_data"
            /\ UNCHANGED <<exit_status, exception, message>>
    /\ UNCHANGED <<inputs, frames, outputs>>

\* Line 298.
load_data ==
    /\ pc = "load_data"
    /\ LET result == load_data_result(sets_file, sets_csv, workouts_file, workouts_csv)
       IN IF result.raises
          THEN Raise(result.exception) /\ UNCHANGED frames
          ELSE /\ sets_df' = result.sets_df
               /\ workouts_df' = result.workouts_df
               /\ pc' = "generate_top_exercises_by_volume"
               /\ UNCHANGED <<exit_status, exception, message>>
    /\ UNCHANGED <<inputs, outputs, output_dir>>

-----------------------------------------------------------------------------
(* The six chart steps, lines 304-309 *)

\* Lines 68-69.  sort_values may return any of the descending orders.
top_exercises_by_volume(rows) ==
    {head(r, top_volume_n) :
        r \in sort_values_descending(groupby_sum(rows, "exercise_name", "volume"))}

generate_top_exercises_by_volume ==
    /\ pc = "generate_top_exercises_by_volume"
    /\ \/ \E top_10 \in top_exercises_by_volume(sets_df.rows) :
             Saved("top_exercises_by_volume", top_10, "generate_workout_frequency")
       \/ WriteFails
    /\ UNCHANGED <<inputs, frames, output_dir, skipped>>

generate_workout_frequency ==
    /\ pc = "generate_workout_frequency"
    /\ IF workouts_df.is_none \/ "session_date" \notin workouts_df.columns
       THEN /\ Skip("workout_frequency", "generate_exercise_progression")
            /\ UNCHANGED workouts_df
       ELSE /\ workouts_df' = assign_week(workouts_df)
            /\ \/ Saved("workout_frequency", weekly_counts_of(workouts_df'),
                        "generate_exercise_progression")
               \/ WriteFails
            /\ UNCHANGED skipped
    /\ UNCHANGED <<inputs, sets_df, output_dir>>

progression_skips(df) == "session_date" \notin df.columns

\* Line 132: the names of the top 5 exercises by total volume.
top_exercises(rows) ==
    {{r[i].key : i \in 1..Len(r)} :
        r \in nlargest(groupby_sum(rows, "exercise_name", "volume"), top_progression_n)}

generate_exercise_progression ==
    /\ pc = "generate_exercise_progression"
    /\ IF progression_skips(sets_df)
       THEN Skip("exercise_progression", "generate_sets_distribution")
       ELSE /\ \/ \E names \in top_exercises(sets_df.rows) :
                     Saved("exercise_progression",
                           [top_exercises |-> names,
                            progression |-> progression_of(sets_df.rows, names)],
                           "generate_sets_distribution")
               \/ WriteFails
            /\ UNCHANGED skipped
    /\ UNCHANGED <<inputs, frames, output_dir>>

\* Line 164: the number of sets of each session, in session order.
sets_per_workout(rows) ==
    LET sizes == groupby_size(rows, "session_id")
    IN [i \in 1..Len(sizes) |-> sizes[i].num]

generate_sets_distribution ==
    /\ pc = "generate_sets_distribution"
    /\ \/ Saved("sets_distribution", sets_per_workout(sets_df.rows), "generate_exercise_frequency")
       \/ WriteFails
    /\ UNCHANGED <<inputs, frames, output_dir, skipped>>

\* Lines 191-192.
exercise_frequency(rows) ==
    {head(r, top_frequency_n) :
        r \in sort_values_descending(groupby_nunique(rows, "exercise_name", "session_id"))}

generate_exercise_frequency ==
    /\ pc = "generate_exercise_frequency"
    /\ \/ \E top_15 \in exercise_frequency(sets_df.rows) :
             Saved("exercise_frequency", top_15, "generate_summary_stats")
       \/ WriteFails
    /\ UNCHANGED <<inputs, frames, output_dir, skipped>>

\* Lines 219-266: the statistics and the panels, for one outcome of each of
\* the two nlargest calls.
summary_stats(df, volume_by_exercise, avg_reps) ==
    LET rows == df.rows
        total_workouts == Cardinality(Keys(rows, "session_id"))
        dated == "session_date" \in df.columns
    IN [total_workouts |-> total_workouts,
        total_sets |-> Len(rows),
        total_exercises |-> Cardinality(Keys(rows, "exercise_name")),
        total_volume |-> ColumnSum(rows, "volume"),
        avg_sets_per_workout |-> avg_sets_per_workout(Len(rows), total_workouts),
        panels |-> {"volume_by_exercise", "avg_reps", "weights"}
                   \cup (IF dated THEN {"sets_over_time"} ELSE {}),
        volume_by_exercise |-> volume_by_exercise,
        avg_reps |-> avg_reps,
        weights |-> positive_weights(rows),
        daily_sets |-> IF dated THEN groupby_size(rows, "session_date") ELSE <<>>]

generate_summary_stats ==
    /\ pc = "generate_summary_stats"
    /\ \E volume_by_exercise \in nlargest(groupby_sum(sets_df.rows, "exercise_name", "volume"),
                                          summary_n),
          avg_reps \in nlargest(groupby_mean(sets_df.rows, "exercise_name", "reps"), summary_n) :
          LET dashboard == summary_stats(sets_df, volume_by_exercise, avg_reps)
          IN IF dashboard.avg_sets_per_workout.raises
             THEN Raise("ZeroDivisionError") /\ UNCHANGED <<written, charts, skipped>>
             ELSE /\ skipped' = IF "sets_over_time" \in dashboard.panels THEN skipped
                                ELSE skipped \cup {"summary_dashboard.sets_over_time"}
                  /\ \/ Saved("summary_dashboard", dashboard, "exited")
                     \/ WriteFails
    /\ UNCHANGED <<inputs, frames, output_dir>>

Next ==
    \/ main
    \/ load_data
    \/ generate_top_exercises_by_volume
    \/ generate_workout_frequency
    \/ generate_exercise_progression
    \/ generate_sets_distribution
    \/ generate_exercise_frequency
    \/ generate_summary_stats

Spec == Init /\ [][Next]_vars

-----------------------------------------------------------------------------
(* Properties *)

Loaded_ == ~sets_df.is_none
Finished == pc = "exited"
Names == Keys(sets_df.rows, "exercise_name")
SessionIds == {workouts_csv[i].session_id : i \in 1..Len(workouts_csv)}
UniqueSessionIds == Cardinality(SessionIds) = Len(workouts_csv)
Min(a, b) == IF a < b THEN a ELSE b

\* C1: after load_data, every row of the returned table has
\* volume = reps * weight with reps >= 0 and weight >= 0, whatever the cells
\* of the file held.
C1_VolumeIsProductOfNonNegatives ==
    Loaded_ => \A i \in 1..Len(sets_df.rows) :
                  LET r == sets_df.rows[i]
                  IN r.volume = r.reps * r.weight /\ r.reps >= 0 /\ r.weight >= 0

\* C2: when the sets file is missing or does not parse, no chart step is ever
\* reached and nothing is written; the run ends with status 1 and a message,
\* and a missing file ends it in main with the usage message before
\* load_data is entered.
C2_FatalInputAborts ==
    sets_file # "ok" =>
        /\ pc \in {"main", "load_data", "exited"}
        /\ written = {} /\ skipped = {} /\ charts = NoCharts
        /\ sets_df.is_none
        /\ sets_file = "missing" => pc # "load_data" /\ ~output_dir
        /\ Finished => /\ exit_status = 1
                       /\ message = IF sets_file = "missing" THEN "usage" ELSE "traceback"

C2_Witness ==
    sets_file = "unparsable" /\ Finished /\ exit_status = 1 /\ message = "traceback"
    /\ written = {}

DateDependent == {"workout_frequency", "exercise_progression"}

C4_ChartFailureIsLocal ==
    (Finished /\ Loaded_) => Cardinality(Charts \ (written \cup skipped)) <= 1


VolumeByName == groupby_sum(sets_df.rows, "exercise_name", "volume")
MeanRepsByName == groupby_mean(sets_df.rows, "exercise_name", "reps")
SessionsByName == groupby_nunique(sets_df.rows, "exercise_name", "session_id")

\* sel is a top-n selection of the series ser: min(n, number of exercises)
\* entries of ser, no exercise twice, values non-increasing, nothing left out
\* that is larger than something kept.
IsTopN(sel, ser, n) ==
    /\ Len(sel) = Min(n, Cardinality(Names))
    /\ Range(sel) \subseteq Range(ser)
    /\ \A i, j \in 1..Len(sel) : i < j => sel[i].key # sel[j].key /\ ~Greater(sel[j], sel[i])
    /\ \A x \in Range(ser) \ Range(sel) : \A y \in Range(sel) : ~Greater(x, y)

IsTopNSet(names, ser, n) ==
    /\ Cardinality(names) = Min(n, Cardinality(Names))
    /\ names \subseteq Names
    /\ \A x, y \in Range(ser) : (x.key \notin names /\ y.key \in names) => ~Greater(x, y)

FirstRow(name) ==
    CHOOSE i \in 1..Len(sets_df.rows) :
        /\ sets_df.rows[i].exercise_name = name
        /\ \A j \in 1..(i - 1) : sets_df.rows[j].exercise_name # name

Tied(a, b) == ~Greater(a, b) /\ ~Greater(b, a)

TiesInEncounterOrder(sel) ==
    \A i, j \in 1..Len(sel) :
        (i < j /\ Tied(sel[i], sel[j])) => FirstRow(sel[i].key) < FirstRow(sel[j].key)

TiesInNameOrder(sel) ==
    \A i, j \in 1..Len(sel) : (i < j /\ Tied(sel[i], sel[j])) => sel[i].key < sel[j].key

SelectionsAreTopN ==
    /\ "top_exercises_by_volume" \in written =>
          IsTopN(charts.top_exercises_by_volume, VolumeByName, top_volume_n)
    /\ "exercise_frequency" \in written =>
          IsTopN(charts.exercise_frequency, SessionsByName, top_frequency_n)
    /\ "exercise_progression" \in written =>
          IsTopNSet(charts.exercise_progression.top_exercises, VolumeByName, top_progression_n)
    /\ "summary_dashboard" \in written =>
          /\ IsTopN(charts.summary_dashboard.volume_by_exercise, VolumeByName, summary_n)
          /\ IsTopN(charts.summary_dashboard.avg_reps, MeanRepsByName, summary_n)

C6_EmptyTableStillRenders ==
    (sets_file = "ok" /\ sets_csv = <<>> /\ Finished /\ exception # "OSError") =>
        /\ exit_status = 0 /\ exception = "none"
        /\ written = Charts \ skipped
        /\ charts.top_exercises_by_volume = <<>>
        /\ charts.sets_distribution = <<>>
        /\ charts.exercise_frequency = <<>>
        /\ "exercise_progression" \in written =>
              /\ charts.exercise_progression.top_exercises = {}
              /\ charts.exercise_progression.progression = <<>>
        /\ charts.summary_dashboard.volume_by_exercise = <<>>
        /\ charts.summary_dashboard.avg_reps = <<>>
        /\ charts.summary_dashboard.weights = <<>>
        /\ charts.summary_dashboard.daily_sets = <<>>
        /\ charts.summary_dashboard.total_sets = 0
        /\ charts.summary_dashboard.total_workouts = 0
        /\ charts.summary_dashboard.avg_sets_per_workout = [raises |-> FALSE, num |-> 0, den |-> 1]

C6_Witness ==
    /\ sets_file = "ok" /\ sets_csv = <<>> /\ workouts_file = "ok"
    /\ Finished /\ exit_status = 0 /\ written = Charts

SeriesTotal(ser) == SumSeq([i \in 1..Len(ser) |-> ser[i].num])

\* C7: the volumes kept in the top-exercises-by-volume aggregate never sum
\* to more than the volume of all set records.
C7_TopVolumeWithinTotal ==
    "top_exercises_by_volume" \in written =>
        SeriesTotal(charts.top_exercises_by_volume) <= ColumnSum(sets_df.rows, "volume")

\* C8: once load_data has returned, no step changes the sets table or the
\* sessions table.
C8_TablesNotMutated ==
    [][pc \notin {"main", "load_data"} => (sets_df' = sets_df /\ workouts_df' = workouts_df)]_vars

RepsTimesWeight(name) ==
    LET rs == RowsOf(sets_df.rows, "exercise_name", name)
    IN SumSeq([i \in 1..Len(rs) |-> rs[i].reps * rs[i].weight])

ExampleJoinsOneToOne == workouts_file = "absent" \/ UniqueSessionIds

\* C9: every entry of the top-exercises-by-volume aggregate holds, for its
\* exercise, the sum of reps * weight over the rows of that exercise, the
\* entries being in descending order; for the example table the volume
\* column is 1000, 800, 750 and the aggregate is Bench = 1800, Squat = 750.
C9_TopVolumeIsSumOfProducts ==
    /\ "top_exercises_by_volume" \in written =>
          LET top == charts.top_exercises_by_volume
          IN /\ \A i \in 1..Len(top) : top[i].num = RepsTimesWeight(top[i].key) /\ top[i].den = 1
             /\ \A i, j \in 1..Len(top) : i < j => top[i].num >= top[j].num
    /\ (sets_csv = ExampleTable /\ ExampleJoinsOneToOne) =>
          /\ Loaded_ => column(sets_df, "volume") = <<1000, 800, 750>>
          /\ "top_exercises_by_volume" \in written =>
                charts.top_exercises_by_volume = << Entry(1, 1800, 1), Entry(2, 750, 1) >>

C9_Witness ==
    /\ sets_csv = ExampleTable /\ workouts_file = "ok" /\ UniqueSessionIds
    /\ "top_exercises_by_volume" \in written
    /\ charts.top_exercises_by_volume[1] = Entry(1, 1800, 1)

\* The date the file gives the session with this id, NaT when it gives none.
DateOfSession(sid) ==
    IF sid \in SessionIds
    THEN LET w == CHOOSE w \in Range(workouts_csv) : w.session_id = sid
         IN IF w.session_date.kind = "num" THEN w.session_date.val ELSE NaT
    ELSE NaT

\* C10: when the sessions file exists with unique session ids, the loaded
\* table has one row per row of the sets file, in file order, each with the
\* date of its session or the null date when it has none; when the file is
\* absent the table has no session_date column and workouts_df is None.
C10_LeftJoinOnSessionId ==
    Loaded_ =>
        /\ (workouts_file = "ok" /\ UniqueSessionIds) =>
              /\ Len(sets_df.rows) = Len(sets_csv)
              /\ "session_date" \in sets_df.columns
              /\ ~workouts_df.is_none
              /\ \A i \in 1..Len(sets_csv) :
                    /\ sets_df.rows[i].session_id = sets_csv[i].session_id
                    /\ sets_df.rows[i].exercise_name = sets_csv[i].exercise_name
                    /\ sets_df.rows[i].session_date = DateOfSession(sets_csv[i].session_id)
        /\ workouts_file = "absent" =>
              /\ workouts_df.is_none
              /\ "session_date" \notin sets_df.columns
              /\ Len(sets_df.rows) = Len(sets_csv)
              /\ \A i \in 1..Len(sets_df.rows) : "session_date" \notin DOMAIN sets_df.rows[i]

C10_Witness ==
    /\ Loaded_ /\ workouts_file = "ok" /\ UniqueSessionIds
    /\ \E i, j \in 1..Len(sets_df.rows) :
          /\ i < j
          /\ sets_df.rows[i].session_date # NaT
          /\ sets_df.rows[j].session_date = NaT
          /\ sets_csv[j].session_id \notin SessionIds

====
